---- MODULE Spec2Model ----
(***************************************************************************)
(* TAO stats pipeline: the paginated fetch with retry and backoff          *)
(* (TaoStatsAPI.fetch_all_data), the price source with its fallback chain  *)
(* (fetch_tao_price_data, fetch_historical_tao_prices) and the price       *)
(* snapshot cache (save_price_data, load_price_data,                       *)
(* get_or_fetch_price_data) of bittensor_stats/tao_stats_visualizer.py,    *)
(*                                                                         *)
(* and the record normaliser (process_data of both variants, with          *)
(* get_price_for_date and the price enrichment of main).                   *)
(*                                                                         *)
(* Five specifications share the module: Spec / FairSpec (the fetch),      *)
(* SpecSource (the price source), SpecCache (the snapshot cache),          *)
(* SpecLookup (nearest-date resolution) and SpecProcess (process_data).    *)
(* The variables of the parts a specification does not exercise stay at    *)
(* their initial values.                                                   *)
(***************************************************************************)
EXTENDS Integers, Sequences, FiniteSets, TLC

VARIABLES
    \* ---- fetch_all_data ----
    pc,            \* position: "page_start" (l.44-52), "attempt" (l.53-95),
                   \* "advance" (l.97-98), "done" (returned)
    page,          \* the page cursor
    retry_count,   \* attempts already spent on the current page
    all_data,      \* the records accumulated so far (the value returned)
    waits,         \* log: the time.sleep() arguments since the last line 52
    answers,       \* log: the responses received since the last line 52
    requested,     \* log: the pages a request was issued for
    exhausted,     \* log: the pages whose retry budget was spent
    upTotal,       \* upstream: the total_pages it reports (fixed)
    clean,         \* log: every response so far was a success with records
                   \* and pagination metadata
    \* ---- price source ----
    srcOp,         \* the operation called last: "none", "current", "historical"
    srcHist,       \* what the feed answered to the historical query
    srcCur,        \* what the feed answered to the latest-price query
    srcToday,      \* the calendar day of the call
    srcRaised,     \* whether the call raised
    srcPrice,      \* the price fetch_tao_price_data returned
    srcPrices,     \* the mapping fetch_historical_tao_prices returned
    \* ---- price cache ----
    clock,         \* wall-clock time in ticks (TicksPerDay ticks a day)
    files,         \* the snapshot files: a set of [ctime, rows]
    ret,           \* the mapping returned by the last get_or_fetch_price_data
    fetched,       \* whether that call queried the price source
    saved,         \* whether that call wrote a snapshot
    existing_prices, \* the local existing_prices of that call (stale branch)
    new_prices,    \* the mapping the price source gave to that call
    call_time,     \* the clock at that call (-1 before the first call)
    \* ---- nearest-date resolution ----
    lk_prices,     \* the price_data mapping a date is resolved against
    lk_stamp,      \* the timestamp of the record or row to be priced
    lk_done,       \* which of the two enrichments has run: "fetch", "main"
    fetch_price,   \* tao_price_usd after the inline lookup of process_data
    main_price,    \* the tao_price_usd main gives to the row of a loaded file
    \* ---- process_data ----
    raw_data,      \* the raw_data argument: a sequence of entries
    include_usd,   \* the include_usd argument
    price_arg,     \* the price_data argument: [given, map], None when not given
    used_prices,   \* the local price_data after lines 268-271
    price_calls,   \* the calls of get_or_fetch_price_data made by process_data
    df,            \* the frame returned by process_data (enriched variant)
    df_error,      \* the exception it raised, "none" when it returned
    basic_df,      \* the frame returned by process_data of the basic variant
    basic_error,   \* the exception the basic variant raised
    proc_done      \* which variants have run: "enriched", "basic"

fetchVars == <<pc, page, retry_count, all_data, waits, answers, requested, exhausted, upTotal, clean>>
sourceVars == <<srcOp, srcHist, srcCur, srcToday, srcRaised, srcPrice, srcPrices>>
cacheVars == <<clock, files, ret, fetched, saved, existing_prices, new_prices, call_time>>
lookupVars == <<lk_prices, lk_stamp, lk_done, fetch_price, main_price>>
processVars == <<raw_data, include_usd, price_arg, used_prices, price_calls, df, df_error, basic_df, basic_error, proc_done>>
vars == <<fetchVars, sourceVars, cacheVars, lookupVars, processVars>>

----------------------------------------------------------------------------
\* Bounds of the model
MaxPages == 3          \* the upstream has 1..MaxPages pages
Limit == 2             \* records on a page (the limit parameter)

\* Program constants
MAX_RETRIES == 3
RateLimitBase == 5
InterPageDelay == 3

\* Pages above every total_pages the upstream can report behave alike (the
\* code only compares page with total_pages), so the cursor is folded at
\* PageCap: PageCap stands for every page > MaxPages.
PageCap == MaxPages + 1

Pow2(n) == 2 ^ n

----------------------------------------------------------------------------
\* The upstream statistics API

NoTotal == 0   \* the response carries no pagination.total_pages

\* the records of page p: Limit records for a page the upstream has
PageData(p) == [i \in 1..Limit |-> <<p, i>>]

\* what the upstream can answer to a request for page p
Responses(p) ==
    {[status |-> "429", data |-> "absent", total |-> NoTotal],
     [status |-> "err", data |-> "absent", total |-> NoTotal]}
    \cup [status : {"ok"},
          data : {"absent", "empty"} \cup (IF p <= upTotal THEN {"records"} ELSE {}),
          total : {NoTotal, upTotal}]

\* a version that goes on to the next page when the total is not known
TotalPages_Unknown(resp) == IF resp.total = NoTotal THEN PageCap ELSE resp.total

\* pagination.get('total_pages', 1)
TotalPages(resp) == IF resp.total = NoTotal THEN 1 ELSE resp.total

\* a version that stops one page late
IsLastPage_Strict(p, total_pages) == p > total_pages

\* page >= total_pages: the last page has been appended
IsLastPage(p, total_pages) == p >= total_pages

\* a version that doubles the base instead of adding to it
RateLimitWait_Doubling(rc) == RateLimitBase * Pow2(rc)

\* 5 + (2 ** retry_count), computed before retry_count is incremented
RateLimitWait(rc) == RateLimitBase + Pow2(rc)

\* a version that computes the wait before retry_count is incremented
ErrorWait_BeforeIncrement(rc) == Pow2(rc - 1)

\* 2 ** retry_count, computed after retry_count was incremented to rc
ErrorWait(rc) == Pow2(rc)

\* page += 1, folded at PageCap
NextPage(p) == IF p < PageCap THEN p + 1 ELSE PageCap

\* the state before fetch_all_data is called (lines 37-39)
FetchIdle ==
    /\ pc = "page_start"
    /\ page = 1
    /\ retry_count = 0
    /\ all_data = <<>>
    /\ waits = <<>>
    /\ answers = <<>>
    /\ requested = {}
    /\ exhausted = {}
    /\ clean = TRUE

\* a version that keeps the attempt counter from the page before
PageStart_NoReset ==
    /\ pc = "page_start"
    /\ waits' = <<>>
    /\ answers' = <<>>
    /\ pc' = "attempt"
    /\ UNCHANGED <<page, retry_count, all_data, requested, exhausted, upTotal, clean>>
    /\ UNCHANGED <<sourceVars, cacheVars, lookupVars, processVars>>

\* lines 44-52: the head of the outer loop
PageStart ==
    /\ pc = "page_start"
    /\ retry_count' = 0
    /\ waits' = <<>>
    /\ answers' = <<>>
    /\ pc' = "attempt"
    /\ UNCHANGED <<page, all_data, requested, exhausted, upTotal, clean>>
    /\ UNCHANGED <<sourceVars, cacheVars, lookupVars, processVars>>

\* lines 57-62: HTTP 429
On429(resp) ==
    /\ resp.status = "429"
    /\ waits' = Append(waits, RateLimitWait(retry_count))
    /\ retry_count' = retry_count + 1
    /\ IF retry_count + 1 < MAX_RETRIES
         THEN pc' = "attempt" /\ exhausted' = exhausted
         ELSE pc' = "advance" /\ exhausted' = exhausted \cup {page}
    /\ UNCHANGED <<page, all_data>>

\* lines 86-95: requests.exceptions.RequestException
OnError(resp) ==
    /\ resp.status = "err"
    /\ retry_count' = retry_count + 1
    /\ IF retry_count + 1 < MAX_RETRIES
         THEN /\ waits' = Append(waits, ErrorWait(retry_count + 1))
              /\ pc' = "attempt"
              /\ exhausted' = exhausted
         ELSE /\ waits' = waits
              /\ pc' = "done"
              /\ exhausted' = exhausted \cup {page}
    /\ UNCHANGED <<page, all_data>>

\* a version that takes a page without records for a gap and moves on
OnSuccess_SkipEmpty(resp) ==
    /\ resp.status = "ok"
    /\ IF resp.data # "records"
         THEN pc' = "advance" /\ all_data' = all_data
         ELSE /\ all_data' = all_data \o PageData(page)
              /\ IF IsLastPage(page, TotalPages(resp))
                   THEN pc' = "done"
                   ELSE pc' = "advance"
    /\ UNCHANGED <<page, retry_count, waits, exhausted>>

\* lines 64-84: a successful response
OnSuccess(resp) ==
    /\ resp.status = "ok"
    /\ IF resp.data # "records"
         THEN pc' = "done" /\ all_data' = all_data
         ELSE /\ all_data' = all_data \o PageData(page)
              /\ IF IsLastPage(page, TotalPages(resp))
                   THEN pc' = "done"
                   ELSE pc' = "advance"
    /\ UNCHANGED <<page, retry_count, waits, exhausted>>

\* lines 53-95: one pass of the retry loop, a request and its handling
Attempt ==
    /\ pc = "attempt"
    /\ retry_count < MAX_RETRIES
    /\ \E resp \in Responses(page) :
          /\ requested' = requested \cup {page}
          /\ answers' = Append(answers, resp)
          /\ clean' = (clean /\ resp.status = "ok" /\ resp.data = "records"
                             /\ resp.total = upTotal)
          /\ \/ On429(resp)
             \/ OnError(resp)
             \/ OnSuccess(resp)
    /\ UNCHANGED upTotal
    /\ UNCHANGED <<sourceVars, cacheVars, lookupVars, processVars>>

\* lines 97-98: the retry loop was left without a return
Advance ==
    /\ pc = "advance"
    /\ page' = NextPage(page)
    /\ waits' = Append(waits, InterPageDelay)
    /\ pc' = "page_start"
    /\ UNCHANGED <<retry_count, all_data, answers, requested, exhausted, upTotal, clean>>
    /\ UNCHANGED <<sourceVars, cacheVars, lookupVars, processVars>>


----------------------------------------------------------------------------
\* The price source (yfinance feed behind fetch_tao_price_data and
\* fetch_historical_tao_prices).  Calendar days are numbers: the order of
\* the "%Y-%m-%d" strings is the order of the days.

MaxDate == 2            \* the feed has rows for days 1..MaxDate
FallbackPrice == 500    \* return 500.0

Dates == 1..MaxDate
NoDate == 0             \* from_date / to_date is None
FirstDataDate == 1      \* "2023-03-20", the first day of the data set

\* the (from_date, to_date) pairs of the callers: both None (process_data),
\* or the first and last day of a data set (main)
DateArgs == {<<NoDate, NoDate>>} \cup {<<s, e>> \in Dates \X Dates : s <= e}

\* the Close the feed can quote for day d: a first quote and a revised one
\* (day 1: 100 or 105; day 2: 107 or 112; ...)
FeedPrices(d) == {100 + 7 * (d - 1), 105 + 7 * (d - 1)}

\* A Python dict date -> price is a function whose domain is its key set.
EmptyDict == [d \in {} |-> 0]
Keys(dict) == DOMAIN dict
DictSet(dict, k, v) == [d \in Keys(dict) \cup {k} |-> IF d = k THEN v ELSE dict[d]]

\* the outcome of a call: it returns val, or it raises
Return(v) == [raised |-> FALSE, val |-> v]
RaisePrice == [raised |-> TRUE, val |-> 0]
RaiseDict == [raised |-> TRUE, val |-> EmptyDict]

\* bool(x) of a price: 0.0 is falsy
Truthy(x) == x # 0

\* tao.history(period='1d'): the feed fails, has no row, or has a last Close
CurOutcomes ==
    {[kind |-> "fail", close |-> 0], [kind |-> "empty", close |-> 0]}
    \cup [kind : {"rows"}, close : {0} \cup FeedPrices(1)]

\* the rows of a history frame: <<day, Close>>, strictly ascending by day
RECURSIVE RowSeqs(_)
RowSeqs(from) ==
    {<<>>} \cup UNION {{<<<<d, p>>>> \o s : s \in RowSeqs(d + 1), p \in FeedPrices(d)} : d \in from..MaxDate}

\* tao.history(start=..., end=...): the feed fails or gives a frame of rows
HistOutcomes ==
    {[kind |-> "fail", rows |-> <<>>]} \cup [kind : {"rows"}, rows : RowSeqs(1)]

\* lines 130-133: the range asked of the feed
QueryRange(from_date, to_date, today) ==
    <<IF from_date = NoDate THEN FirstDataDate ELSE from_date,
      IF to_date = NoDate THEN today ELSE to_date>>

\* The feed is outside the repository: whatever the range, it may fail, give
\* no row, or give rows.
FeedHistory(range) == HistOutcomes

\* a dict filled row by row: d[key] = value for each row in turn
RECURSIVE DictFromRows(_, _)
DictFromRows(rows, acc) ==
    IF rows = <<>> THEN acc
    ELSE DictFromRows(Tail(rows), DictSet(acc, Head(rows)[1], Head(rows)[2]))

\* lines 147-153: for date_idx, row in hist.iterrows(): daily_prices[...] = ...
DailyPrices(rows) == DictFromRows(rows, EmptyDict)

\* lines 106-117: the try block of fetch_tao_price_data
TaoPriceTry(cur) ==
    IF cur.kind = "fail" THEN RaisePrice
    ELSE IF cur.kind = "rows" THEN Return(cur.close)
    ELSE Return(FallbackPrice)

\* a version whose except clause lets the feed's error through
fetch_tao_price_data_Uncaught(cur) == TaoPriceTry(cur)

\* lines 103-122
fetch_tao_price_data(cur) ==
    LET r == TaoPriceTry(cur)
    IN IF r.raised THEN Return(FallbackPrice) ELSE r

\* lines 168-178 and 185-193: the current price as a single-entry mapping
CurrentPriceFallback(cur, today) ==
    LET r == fetch_tao_price_data(cur)
    IN IF r.raised THEN Return(EmptyDict)
       ELSE IF Truthy(r.val) THEN Return(DictSet(EmptyDict, today, r.val))
       ELSE Return(EmptyDict)

\* lines 127-178: the try block of fetch_historical_tao_prices
HistoricalTry(hist, cur, today) ==
    IF hist.kind = "fail" THEN RaiseDict
    ELSE IF Len(hist.rows) > 0 THEN Return(DailyPrices(hist.rows))
    ELSE CurrentPriceFallback(cur, today)

\* lines 124-193
fetch_historical_tao_prices(hist, cur, today) ==
    LET r == HistoricalTry(hist, cur, today)
    IN IF r.raised THEN CurrentPriceFallback(cur, today) ELSE r

\* the feed has not been asked
NoCur == [kind |-> "none", close |-> 0]
NoHist == [kind |-> "none", rows |-> <<>>]
MaxToday == 3           \* the calls of SpecSource happen on days 1..MaxToday

SourceIdle ==
    /\ srcOp = "none"
    /\ srcHist = NoHist
    /\ srcCur = NoCur
    /\ srcToday = 1
    /\ srcRaised = FALSE
    /\ srcPrice = 0
    /\ srcPrices = EmptyDict

CallCurrent ==
    \E cur \in CurOutcomes :
        /\ srcOp' = "current"
        /\ srcCur' = cur
        /\ srcHist' = NoHist
        /\ srcRaised' = fetch_tao_price_data(cur).raised
        /\ srcPrice' = fetch_tao_price_data(cur).val
        /\ srcPrices' = EmptyDict
        /\ UNCHANGED srcToday
        /\ UNCHANGED <<fetchVars, cacheVars, lookupVars, processVars>>

CallHistorical ==
    \E args \in DateArgs, today \in 1..MaxToday, cur \in CurOutcomes :
        \E hist \in FeedHistory(QueryRange(args[1], args[2], today)) :
            /\ srcOp' = "historical"
            /\ srcHist' = hist
            /\ srcCur' = cur
            /\ srcToday' = today
            /\ srcRaised' = fetch_historical_tao_prices(hist, cur, today).raised
            /\ srcPrices' = fetch_historical_tao_prices(hist, cur, today).val
            /\ srcPrice' = 0
            /\ UNCHANGED <<fetchVars, cacheVars, lookupVars, processVars>>

----------------------------------------------------------------------------
\* The price snapshot cache (save_price_data, load_price_data,
\* get_or_fetch_price_data).  A snapshot file is [ctime, rows]: its creation
\* time, which is also the timestamp in its name, and its CSV rows.

TicksPerDay == 2        \* the clock ticks TicksPerDay times a day
MaxClock == 5           \* the clock runs from 0 to MaxClock
StaleDays == 1          \* (datetime.now() - file_date).days > 1

\* datetime.now().strftime("%Y-%m-%d") at clock time t
Today(t) == (t \div TicksPerDay) + 1

\* sorted(price_data.items()): the rows <<date, price>> ascending by date
RECURSIVE SortedItems(_)
SortedItems(dict) ==
    IF Keys(dict) = {} THEN <<>>
    ELSE LET k == CHOOSE x \in Keys(dict) : \A y \in Keys(dict) : x <= y
             rest == [d \in Keys(dict) \ {k} |-> dict[d]]
         IN <<<<k, dict[k]>>>> \o SortedItems(rest)

\* lines 195-214: the files after save_price_data(price_data) at time now
save_price_data(fs, price_data, now) ==
    IF Keys(price_data) = {} THEN fs
    ELSE {f \in fs : f.ctime # now} \cup {[ctime |-> now, rows |-> SortedItems(price_data)]}

\* lines 216-225: dict(zip(df['date'], df['price_usd']))
load_price_data(file) == DictFromRows(file.rows, EmptyDict)

\* line 235: max(price_files, key=os.path.getctime)
LatestFile(fs) == CHOOSE f \in fs : \A g \in fs : g.ctime <= f.ctime

\* line 239-240: (datetime.now() - file_date).days
AgeDays(file, now) == (now - file.ctime) \div TicksPerDay

\* a version that refreshes as soon as the snapshot is a day old
IsStale_AfterOneDay(file, now) == AgeDays(file, now) >= StaleDays

\* line 240: (datetime.now() - file_date).days > 1
IsStale(file, now) == AgeDays(file, now) > StaleDays

\* a version where the existing rows win over the new ones
MergePrices_OldWins(existing, new) ==
    [d \in Keys(existing) \cup Keys(new) |-> IF d \in Keys(existing) THEN existing[d] ELSE new[d]]

\* a version that keeps the freshly fetched rows alone
MergePrices_NewOnly(existing, new) == DictFromRows(SortedItems(new), EmptyDict)

\* line 247: {**existing_prices, **new_prices}
MergePrices(existing, new) ==
    DictFromRows(SortedItems(new), DictFromRows(SortedItems(existing), EmptyDict))

CacheIdle ==
    /\ clock = 0
    /\ files = {}
    /\ ret = EmptyDict
    /\ fetched = FALSE
    /\ saved = FALSE
    /\ existing_prices = EmptyDict
    /\ new_prices = EmptyDict
    /\ call_time = -1

\* time passes between two calls
Tick ==
    /\ clock < MaxClock
    /\ clock' = clock + 1
    /\ UNCHANGED <<files, ret, fetched, saved, existing_prices, new_prices, call_time>>
    /\ UNCHANGED <<fetchVars, sourceVars, lookupVars, processVars>>

\* lines 233-251: a snapshot exists and is stale
StaleBranch(hist, cur) ==
    LET latest_file == LatestFile(files)
        existing == load_price_data(latest_file)
        new == fetch_historical_tao_prices(hist, cur, Today(clock)).val
        combined_prices == MergePrices(existing, new)
    IN /\ existing_prices' = existing
       /\ new_prices' = new
       /\ files' = save_price_data(files, combined_prices, clock)
       /\ saved' = (files' # files)
       /\ fetched' = TRUE
       /\ ret' = combined_prices

\* lines 252-254: a snapshot exists and is fresh
FreshBranch ==
    /\ ret' = load_price_data(LatestFile(files))
    /\ fetched' = FALSE
    /\ saved' = FALSE
    /\ existing_prices' = EmptyDict
    /\ new_prices' = EmptyDict
    /\ UNCHANGED files

\* a version that returns the fetched mapping without persisting it
NoFileBranch_NoSave(hist, cur) ==
    LET price_data == fetch_historical_tao_prices(hist, cur, Today(clock)).val
    IN /\ new_prices' = price_data
       /\ existing_prices' = EmptyDict
       /\ files' = files
       /\ saved' = FALSE
       /\ fetched' = TRUE
       /\ ret' = price_data

\* lines 255-261: no snapshot exists
NoFileBranch(hist, cur) ==
    LET price_data == fetch_historical_tao_prices(hist, cur, Today(clock)).val
    IN /\ new_prices' = price_data
       /\ existing_prices' = EmptyDict
       /\ files' = (IF Keys(price_data) # {} THEN save_price_data(files, price_data, clock) ELSE files)
       /\ saved' = (files' # files)
       /\ fetched' = TRUE
       /\ ret' = price_data

\* lines 244 and 258: fetch_historical_tao_prices(start_date, end_date), with
\* what the feed answers to it
FeedAnswers(start_date, end_date) ==
    CurOutcomes \X FeedHistory(QueryRange(start_date, end_date, Today(clock)))

\* lines 227-261
get_or_fetch_price_data(start_date, end_date) ==
    /\ IF files # {}
         THEN IF IsStale(LatestFile(files), clock)
                THEN \E feed \in FeedAnswers(start_date, end_date) : StaleBranch(feed[2], feed[1])
                ELSE FreshBranch
         ELSE \E feed \in FeedAnswers(start_date, end_date) : NoFileBranch(feed[2], feed[1])
    /\ call_time' = clock
    /\ UNCHANGED clock

\* a call of get_or_fetch_price_data by process_data or main
GetOrFetch ==
    /\ \E args \in DateArgs : get_or_fetch_price_data(args[1], args[2])
    /\ UNCHANGED <<fetchVars, sourceVars, lookupVars, processVars>>

----------------------------------------------------------------------------
\* Nearest-date resolution: the lookup written inline in process_data (lines
\* 300-319) and get_price_for_date (lines 539-554), as main applies it to the
\* rows of a loaded file (lines 590-596).  Timestamps are clock ticks.

MaxKeyDay == 3          \* the dates a price mapping can hold: days 1..MaxKeyDay
None == -1              \* tao_price_usd = None: no price

\* the prices a mapping can hold for a date
PricePoints == {100, 110}

\* the mappings date -> price over the days 1..MaxKeyDay, the empty one too
PriceMaps == UNION {[ks -> PricePoints] : ks \in SUBSET (1..MaxKeyDay)}

\* the timestamps to resolve: from day 1 to the day after the last key day
LookupStamps == 0..((MaxKeyDay + 1) * TicksPerDay - 1)

\* lines 302-303: datetime.fromisoformat(...).strftime("%Y-%m-%d"), the
\* calendar day a timestamp falls on
DateStr(ts) == (ts \div TicksPerDay) + 1

\* line 595: ts.strftime('%Y-%m-%d') of the parsed timestamp column
FrameDateStr(ts) == (ts \div TicksPerDay) + 1

\* sorted(price_data.keys())
SortedKeys(dict) ==
    LET items == SortedItems(dict) IN [i \in 1..Len(items) |-> items[i][1]]

\* lines 312-315: the for loop over available_dates from position i on; it
\* leaves tao_price_usd as it is when no date >= date_str is left
RECURSIVE ScanAvailable(_, _, _, _, _)
ScanAvailable(dict, available_dates, i, date_str, tao_price_usd) ==
    IF i > Len(available_dates) THEN tao_price_usd
    ELSE IF available_dates[i] >= date_str THEN dict[available_dates[i]]
    ELSE ScanAvailable(dict, available_dates, i + 1, date_str, tao_price_usd)

\* a version without lines 318-319: no price after the last available date
InlineLookup_NoBackFill(dict, date_str) ==
    IF date_str \in Keys(dict) THEN dict[date_str]
    ELSE ScanAvailable(dict, SortedKeys(dict), 1, date_str, None)

\* lines 306-319: the lookup written inline in process_data
InlineLookup(dict, date_str) ==
    IF date_str \in Keys(dict) THEN dict[date_str]
    ELSE LET available_dates == SortedKeys(dict)
             tao_price_usd == ScanAvailable(dict, available_dates, 1, date_str, None)
         IN IF tao_price_usd = None /\ available_dates # <<>>
              THEN dict[available_dates[Len(available_dates)]]
              ELSE tao_price_usd

\* lines 546-548: the position of the first available date >= date_str, 0
\* when the loop ends without returning
RECURSIVE FirstOnOrAfter(_, _, _)
FirstOnOrAfter(available_dates, i, date_str) ==
    IF i > Len(available_dates) THEN 0
    ELSE IF available_dates[i] >= date_str THEN i
    ELSE FirstOnOrAfter(available_dates, i + 1, date_str)

\* a version that prefers the last known price: the latest date before
\* date_str when there is one
get_price_for_date_LastKnown(dict, date_str) ==
    IF date_str \in Keys(dict) THEN dict[date_str]
    ELSE IF \E k \in Keys(dict) : k < date_str
           THEN dict[CHOOSE k \in Keys(dict) : k < date_str /\ \A j \in Keys(dict) : j < date_str => j <= k]
    ELSE IF Keys(dict) # {}
           THEN dict[CHOOSE k \in Keys(dict) : \A j \in Keys(dict) : k <= j]
    ELSE None

\* lines 539-554
get_price_for_date(dict, date_str) ==
    IF date_str \in Keys(dict) THEN dict[date_str]
    ELSE LET available_dates == SortedKeys(dict)
             hit == FirstOnOrAfter(available_dates, 1, date_str)
         IN IF hit # 0 THEN dict[available_dates[hit]]
            ELSE IF available_dates # <<>> THEN dict[available_dates[Len(available_dates)]]
            ELSE None

\* no lookup has run
LookupIdle ==
    /\ lk_prices = EmptyDict
    /\ lk_stamp = 0
    /\ lk_done = {}
    /\ fetch_price = None
    /\ main_price = None

\* lines 300-319 for one entry, price_data being given: the price process_data
\* resolves for the entry at fetch time
EnrichAtFetch ==
    /\ "fetch" \notin lk_done
    /\ fetch_price' = InlineLookup(lk_prices, DateStr(lk_stamp))
    /\ lk_done' = lk_done \cup {"fetch"}
    /\ UNCHANGED <<lk_prices, lk_stamp, main_price>>
    /\ UNCHANGED <<fetchVars, sourceVars, cacheVars, processVars>>

\* lines 592-596 for one row of a loaded file: if price_data: ... apply(
\* get_price_for_date); without a price mapping the row gets no price
EnrichExisting ==
    /\ "main" \notin lk_done
    /\ main_price' = (IF Keys(lk_prices) # {}
                        THEN get_price_for_date(lk_prices, FrameDateStr(lk_stamp))
                        ELSE None)
    /\ lk_done' = lk_done \cup {"main"}
    /\ UNCHANGED <<lk_prices, lk_stamp, fetch_price>>
    /\ UNCHANGED <<fetchVars, sourceVars, cacheVars, processVars>>

----------------------------------------------------------------------------
\* The record normaliser: process_data of the enriched variant
\* (bittensor_stats/tao_stats_visualizer.py, lines 263-333) and of the basic
\* variant (tao_stats_visualizer.py, lines 101-129).  Python floats are kept
\* as exact fractions [num, den].

MaxStamp == 2           \* the entries carry the timestamps 1..MaxStamp
MaxRecords == 2         \* raw_data holds at most MaxRecords entries
RaoPerTao == 1000000000 \* 1e9

\* the (issued, staked) amounts of an entry, in raw units: nothing issued,
\* nothing staked, part staked, all staked, more staked than issued
Amounts == {<<0, 0>>, <<0, 1>>, <<2, 1>>, <<2, 2>>, <<2, 3>>}

\* the entries of the statistics API; int(entry[...]) reads the amounts
RawRecords ==
    {[timestamp |-> ts, block_number |-> 7200 + ts, issued |-> a[1], staked |-> a[2],
      accounts |-> 50, balance_holders |-> 40] : ts \in 1..MaxStamp, a \in Amounts}

\* the sequences of at most n entries
RECURSIVE RawLists(_)
RawLists(n) ==
    IF n = 0 THEN {<<>>}
    ELSE RawLists(n - 1) \cup {Append(l, r) : l \in {m \in RawLists(n - 1) : Len(m) = n - 1}, r \in RawRecords}

\* the price_data argument: None, or a mapping
NoPrices == [given |-> FALSE, map |-> EmptyDict]
Given(m) == [given |-> TRUE, map |-> m]

\* the arguments a caller passes: None, the empty mapping, a single price
PriceArgs == {NoPrices, Given(EmptyDict), Given(DictSet(EmptyDict, FirstDataDate, 100))}

Ratio(n, d) == [num |-> n, den |-> d]
Zero == Ratio(0, 1)

\* issued / 1e9, staked / 1e9
ToTao(raw) == Ratio(raw, RaoPerTao)

\* line 284: issued_tao - staked_tao, both over 1e9
CirculatingTao(issued_tao, staked_tao) == Ratio(issued_tao.num - staked_tao.num, RaoPerTao)

\* a version without the guard on issued
StakedPercentage_Unguarded(issued, staked) == Ratio(staked * 100, issued)

\* a version that leaves the fraction as it is
StakedPercentage_Fraction(issued, staked) ==
    IF issued > 0 THEN Ratio(staked, issued) ELSE Zero

\* line 279: (staked / issued) * 100 if issued > 0 else 0
StakedPercentage(issued, staked) ==
    IF issued > 0 THEN Ratio(staked * 100, issued) ELSE Zero

\* line 294: (circulating_tao / issued_tao) * 100 if issued_tao > 0 else 0;
\* the two amounts are over the same 1e9
CirculatingPercentage(circulating_tao, issued_tao) ==
    IF issued_tao.num > 0 THEN Ratio(circulating_tao.num * 100, issued_tao.num) ELSE Zero

\* amount * tao_price_usd
TimesPrice(amount, price) == Ratio(amount.num * price, amount.den)

\* a version that attaches the price alone
UsdColumns_PriceOnly(issued_tao, staked_tao, circulating_tao, price) ==
    [k \in {"tao_price_usd"} |-> Ratio(price, 1)]

\* lines 322-327: the four USD entries of data_point.update
UsdColumns(issued_tao, staked_tao, circulating_tao, price) ==
    [k \in {"total_market_cap_usd", "staked_market_cap_usd", "circulating_market_cap_usd", "tao_price_usd"} |->
        CASE k = "total_market_cap_usd" -> TimesPrice(issued_tao, price)
          [] k = "staked_market_cap_usd" -> TimesPrice(staked_tao, price)
          [] k = "circulating_market_cap_usd" -> TimesPrice(circulating_tao, price)
          [] k = "tao_price_usd" -> Ratio(price, 1)]

\* no USD entry
NoUsd == [k \in {} |-> Zero]

\* lines 300-327: the USD entries of the data point of an entry
UsdOf(entry, usd, prices) ==
    IF usd /\ prices.given
      THEN LET tao_price_usd == InlineLookup(prices.map, DateStr(entry.timestamp))
               issued_tao == ToTao(entry.issued)
               staked_tao == ToTao(entry.staked)
           IN IF tao_price_usd # None
                THEN UsdColumns(issued_tao, staked_tao, CirculatingTao(issued_tao, staked_tao), tao_price_usd)
                ELSE NoUsd
      ELSE NoUsd

\* lines 274-329: the data point of an entry; its USD entries are the
\* mapping in usd
DataPoint(entry, usd, prices) ==
    LET issued_tao == ToTao(entry.issued)
        staked_tao == ToTao(entry.staked)
        circulating_tao == CirculatingTao(issued_tao, staked_tao)
    IN [timestamp |-> entry.timestamp,
        block_number |-> entry.block_number,
        issued_tao |-> issued_tao,
        staked_tao |-> staked_tao,
        circulating_tao |-> circulating_tao,
        staked_percentage |-> StakedPercentage(entry.issued, entry.staked),
        circulating_percentage |-> CirculatingPercentage(circulating_tao, issued_tao),
        accounts |-> entry.accounts,
        balance_holders |-> entry.balance_holders,
        usd |-> UsdOf(entry, usd, prices)]

\* basic variant, lines 105-125: the data point of an entry
BasicDataPoint(entry) ==
    [timestamp |-> entry.timestamp,
     block_number |-> entry.block_number,
     issued_tao |-> ToTao(entry.issued),
     staked_tao |-> ToTao(entry.staked),
     staked_percentage |-> IF entry.issued > 0 THEN Ratio(entry.staked * 100, entry.issued) ELSE Zero,
     accounts |-> entry.accounts,
     balance_holders |-> entry.balance_holders]

\* a row goes behind the rows whose timestamp is not greater
RECURSIVE InsertByTimestamp(_, _)
InsertByTimestamp(sorted, row) ==
    IF sorted = <<>> THEN <<row>>
    ELSE IF sorted[Len(sorted)].timestamp <= row.timestamp THEN Append(sorted, row)
    ELSE Append(InsertByTimestamp(SubSeq(sorted, 1, Len(sorted) - 1), row), sorted[Len(sorted)])

RECURSIVE SortedPrefix(_, _)
SortedPrefix(rows, n) ==
    IF n = 0 THEN <<>> ELSE InsertByTimestamp(SortedPrefix(rows, n - 1), rows[n])

\* a version that leaves the rows in the order of the input
SortByTimestamp_InputOrder(rows) == rows

\* df.sort_values('timestamp'): ascending, rows of equal timestamp in the
\* order of the input (frames this short are sorted by insertion)
SortByTimestamp(rows) == SortedPrefix(rows, Len(rows))

\* a division by zero shows as a fraction over 0 (lines 279 and 294)
DivisionFault(rows) ==
    \E i \in DOMAIN rows :
        rows[i].staked_percentage.den = 0 \/ rows[i].circulating_percentage.den = 0

\* basic variant, line 111
BasicDivisionFault(rows) ==
    \E i \in DOMAIN rows : rows[i].staked_percentage.den = 0

\* the exception of the loop, the frame construction and the sort: a
\* division by zero in a data point; KeyError('timestamp') of sort_values on
\* the frame of an empty list, which has no column
FrameError(rows, fault) ==
    IF fault THEN "ZeroDivisionError"
    ELSE IF rows = <<>> THEN "KeyError"
    ELSE "none"

\* a version that asks the cache for prices whatever include_usd is
NeedsPrices_Always(usd, prices) == ~prices.given

\* line 268: include_usd and price_data is None
NeedsPrices(usd, prices) == usd /\ ~prices.given

\* no call of process_data has been made
ProcessIdle ==
    /\ raw_data = <<>>
    /\ include_usd = TRUE
    /\ price_arg = NoPrices
    /\ used_prices = NoPrices
    /\ price_calls = 0
    /\ df = <<>>
    /\ df_error = "none"
    /\ basic_df = <<>>
    /\ basic_error = "none"
    /\ proc_done = {}

\* the arguments of a call of process_data
ProcessArgs ==
    /\ raw_data \in RawLists(MaxRecords)
    /\ include_usd \in BOOLEAN
    /\ price_arg \in PriceArgs
    /\ used_prices = NoPrices
    /\ price_calls = 0
    /\ df = <<>>
    /\ df_error = "none"
    /\ basic_df = <<>>
    /\ basic_error = "none"
    /\ proc_done = {}

\* enriched variant, lines 263-333: process_data(raw_data, include_usd,
\* price_data); the list has gone through the basic variant before
process_data ==
    /\ proc_done = {"basic"}
    /\ IF NeedsPrices(include_usd, price_arg)
         THEN /\ get_or_fetch_price_data(NoDate, NoDate)
              /\ used_prices' = Given(ret')
              /\ price_calls' = price_calls + 1
         ELSE /\ used_prices' = (IF include_usd THEN price_arg ELSE NoPrices)
              /\ price_calls' = price_calls
              /\ UNCHANGED cacheVars
    /\ LET processed_data == [i \in 1..Len(raw_data) |-> DataPoint(raw_data[i], include_usd, used_prices')]
           error == FrameError(processed_data, DivisionFault(processed_data))
       IN /\ df_error' = error
          /\ df' = (IF error = "none" THEN SortByTimestamp(processed_data) ELSE <<>>)
    /\ proc_done' = proc_done \cup {"enriched"}
    /\ UNCHANGED <<raw_data, include_usd, price_arg, basic_df, basic_error>>
    /\ UNCHANGED <<fetchVars, sourceVars, lookupVars>>

\* basic variant, lines 101-129: process_data(raw_data)
process_data_basic ==
    /\ proc_done = {}
    /\ LET processed_data == [i \in 1..Len(raw_data) |-> BasicDataPoint(raw_data[i])]
           error == FrameError(processed_data, BasicDivisionFault(processed_data))
       IN /\ basic_error' = error
          /\ basic_df' = (IF error = "none" THEN SortByTimestamp(processed_data) ELSE <<>>)
    /\ proc_done' = proc_done \cup {"basic"}
    /\ UNCHANGED <<raw_data, include_usd, price_arg, used_prices, price_calls, df, df_error>>
    /\ UNCHANGED <<fetchVars, sourceVars, cacheVars, lookupVars>>

----------------------------------------------------------------------------
\* Specifications

\* the paginated fetch, against an upstream of 1..MaxPages pages
Init == FetchIdle /\ upTotal \in 1..MaxPages /\ SourceIdle /\ CacheIdle /\ LookupIdle /\ ProcessIdle

Next == PageStart \/ Attempt \/ Advance

Spec == Init /\ [][Next]_vars

\* the fetch is one sequential thread: it takes its next step when it has one
FairSpec == Init /\ [][Next]_vars /\ WF_vars(Next)

\* the price source
InitSource == FetchIdle /\ upTotal = 1 /\ SourceIdle /\ CacheIdle /\ LookupIdle /\ ProcessIdle

NextSource == CallCurrent \/ CallHistorical

SpecSource == InitSource /\ [][NextSource]_vars

\* the price cache
InitCache == FetchIdle /\ upTotal = 1 /\ SourceIdle /\ CacheIdle /\ LookupIdle /\ ProcessIdle

NextCache == Tick \/ GetOrFetch

SpecCache == InitCache /\ [][NextCache]_vars

\* nearest-date resolution: a price mapping and a timestamp, priced by
\* process_data at fetch time and by main on a loaded file
InitLookup ==
    /\ FetchIdle /\ upTotal = 1 /\ SourceIdle /\ CacheIdle /\ ProcessIdle
    /\ lk_prices \in PriceMaps
    /\ lk_stamp \in LookupStamps
    /\ lk_done = {}
    /\ fetch_price = None
    /\ main_price = None

NextLookup == EnrichAtFetch \/ EnrichExisting

SpecLookup == InitLookup /\ [][NextLookup]_vars

\* process_data of both variants on the same arguments, one after the other
InitProcess == FetchIdle /\ upTotal = 1 /\ SourceIdle /\ CacheIdle /\ LookupIdle /\ ProcessArgs

NextProcess == process_data \/ process_data_basic

SpecProcess == InitProcess /\ [][NextProcess]_vars

----------------------------------------------------------------------------
\* Properties of fetch_all_data

\* the in-order concatenation of the records of pages 1..n
ConcatPages(n) == [k \in 1..(n * Limit) |-> <<((k - 1) \div Limit) + 1, ((k - 1) % Limit) + 1>>]

\* the statuses of the responses of the current page
Statuses == [i \in 1..Len(answers) |-> answers[i].status]

\* C1: once the retry budget of a page is spent, whatever the failures were,
\* the fetch has returned and no later page is ever requested.
C1_ExhaustedBudgetReturns ==
    \A p \in exhausted : pc = "done" /\ \A q \in requested : q <= p

\* C2: every call of fetch_all_data eventually returns, whatever pattern of
\* 429 responses and errors the upstream produces.
C2_FetchTerminates == <>(pc = "done")

\* C3: when every request succeeds with a non-empty page and total_pages = N,
\* the fetch never moves past page N, returns as soon as page N is appended,
\* and returns exactly the records of pages 1..N in page order.
C3_CleanFetchIsExact ==
    clean =>
        /\ page <= upTotal
        /\ requested \subseteq 1..upTotal
        /\ Len(all_data) = upTotal * Limit => pc = "done"
        /\ pc = "done" => all_data = ConcatPages(upTotal) /\ requested = 1..upTotal

C3_Witness ==
    clean /\ pc = "done" /\ upTotal = MaxPages /\ all_data = ConcatPages(MaxPages)

\* C4: a 429 answer to attempt number a (from 0) is followed by a wait of
\* 5 + 2^a seconds, then the attempt counter is incremented and the same page
\* is tried again; a page answered 429, 429, success has waited 6 then 7
\* seconds, and its records are appended.
C4_RateLimitBackoff ==
    /\ \A i \in 1..Len(answers) :
          Statuses[i] = "429" => Len(waits) >= i /\ waits[i] = 5 + 2 ^ (i - 1)
    /\ (answers # <<>> /\ Statuses[Len(answers)] = "429" /\ Len(answers) < MAX_RETRIES) =>
          pc = "attempt" /\ retry_count = Len(answers) /\ page \in requested
    /\ (pc \in {"advance", "done"} /\ Len(answers) = 3 /\ Statuses = <<"429", "429", "ok">>
            /\ answers[3].data = "records") =>
          /\ waits = <<6, 7>>
          /\ Len(all_data) >= Limit
          /\ SubSeq(all_data, Len(all_data) - Limit + 1, Len(all_data)) = PageData(page)

C4_Witness ==
    /\ pc \in {"advance", "done"}
    /\ Len(answers) = 3
    /\ Statuses = <<"429", "429", "ok">>
    /\ answers[3].data = "records"
    /\ waits = <<6, 7>>

\* C5 (as claimed): an error other than 429 at attempt number a (from 0) is
\* followed by a wait of 2^a seconds: 1 second after the first failure, 2
\* seconds after the second.
C5_ErrorBackoffAsClaimed ==
    \A i \in 1..Len(answers) :
        Statuses[i] = "err" => Len(waits) >= i /\ waits[i] = 2 ^ (i - 1)

\* C5 (amended): an error other than 429 at attempt number a increments the
\* attempt counter first and then waits 2^(a+1) seconds (2 seconds after the
\* first failure, 4 after the second) before the same page is tried again;
\* the failure of the last attempt of the budget is followed by no wait and
\* no retry: the fetch returns.
C5_ErrorBackoff ==
    \A i \in 1..Len(answers) :
        Statuses[i] = "err" =>
            IF i < MAX_RETRIES
              THEN /\ Len(waits) >= i /\ waits[i] = 2 ^ i
                   /\ i = Len(answers) => pc = "attempt" /\ retry_count = i /\ page \in requested
              ELSE pc = "done" /\ Len(waits) = i - 1

C5_Witness ==
    /\ Len(answers) >= 2
    /\ Statuses[1] = "err" /\ Statuses[2] = "err"
    /\ waits[1] = 2 /\ waits[2] = 4

----------------------------------------------------------------------------
\* Properties of the price cache

\* the snapshot created last
MostRecent == CHOOSE f \in files : \A g \in files : g.ctime <= f.ctime

\* the date -> price mapping a snapshot file holds
Contents(f) ==
    [d \in {f.rows[i][1] : i \in DOMAIN f.rows} |->
        LET i == CHOOSE j \in DOMAIN f.rows : f.rows[j][1] = d IN f.rows[i][2]]

\* the age of the most recent snapshot, in ticks
AgeTicks == clock - MostRecent.ctime

\* C6: a call that finds a snapshot older than 1 day (ages between 1 and 2
\* days included) queries the price source, merges, persists the merge as a
\* new snapshot and returns the merge.
C6_StaleAfterOneDay ==
    [][(GetOrFetch /\ files # {} /\ AgeTicks > TicksPerDay) =>
          /\ fetched'
          /\ \E f \in files' \ files : Contents(f) = ret'
          /\ Keys(ret') = Keys(Contents(MostRecent)) \cup Keys(new_prices')]_vars

\* C7: a call that finds a snapshot at most 1 day old returns the contents
\* of the most recent snapshot, writes no snapshot and does not query the
\* price source, whatever start_date and end_date are.
C7_FreshSnapshotReturned ==
    [][(GetOrFetch /\ files # {} /\ AgeTicks <= TicksPerDay) =>
          /\ ret' = Contents(MostRecent)
          /\ files' = files
          /\ ~fetched'
          /\ ~saved']_vars

C7_Witness ==
    /\ files # {}
    /\ call_time = clock
    /\ AgeTicks = TicksPerDay
    /\ ~fetched
    /\ ret = Contents(MostRecent)

\* C8 (as claimed): a call that finds no snapshot queries the price source
\* and, for every result (the empty mapping too), leaves a snapshot whose
\* contents equal the mapping it returns.
C8_NoSnapshotAlwaysPersists ==
    [][(GetOrFetch /\ files = {}) =>
          /\ fetched'
          /\ ret' = new_prices'
          /\ \E f \in files' : Contents(f) = ret']_vars

\* C8 (amended): a call that finds no snapshot queries the price source and
\* returns its result; when the result is non-empty the call persists it as
\* a new snapshot, and afterwards a snapshot exists whose contents equal the
\* returned mapping; when the result is the empty mapping no snapshot is
\* written.
C8_NoSnapshotPersistsNonEmpty ==
    [][(GetOrFetch /\ files = {}) =>
          /\ fetched'
          /\ ret' = new_prices'
          /\ IF Keys(ret') # {}
                THEN \E f \in files' : files' = {f} /\ f.ctime = clock /\ Contents(f) = ret'
                ELSE files' = {} /\ ~saved']_vars

C8_Witness ==
    /\ call_time = clock
    /\ fetched /\ saved
    /\ Keys(ret) # {}
    /\ \E f \in files : files = {f} /\ f.ctime = clock /\ Contents(f) = ret

\* C9: the merge of the existing mapping with the freshly fetched one has
\* the union of both key sets; a date of the fresh mapping has the fresh
\* price, a date only in the existing mapping keeps its price.
C9_MergeNewOverwritesOld ==
    (fetched /\ files # {}) =>
        /\ Keys(ret) = Keys(existing_prices) \cup Keys(new_prices)
        /\ \A d \in Keys(new_prices) : ret[d] = new_prices[d]
        /\ \A d \in Keys(existing_prices) \ Keys(new_prices) : ret[d] = existing_prices[d]
        /\ (existing_prices = (1 :> 100) /\ new_prices = (1 :> 105) @@ (2 :> 107)) =>
              ret = (1 :> 105) @@ (2 :> 107)

C9_Witness ==
    /\ fetched
    /\ existing_prices = (1 :> 100)
    /\ new_prices = (1 :> 105) @@ (2 :> 107)
    /\ ret = (1 :> 105) @@ (2 :> 107)

----------------------------------------------------------------------------
\* Properties of the price source

\* the Close values of a history frame as a mapping day -> price
FrameMapping(rows) ==
    [d \in {rows[i][1] : i \in DOMAIN rows} |->
        LET i == CHOOSE j \in DOMAIN rows : rows[j][1] = d IN rows[i][2]]

\* the price fetch_tao_price_data is to give for a feed answer
ExpectedCurrent(cur) == IF cur.kind = "rows" THEN cur.close ELSE 500

\* C10: neither price function raises.  fetch_tao_price_data gives the last
\* Close, and 500.0 on a feed error or an empty answer.
\* fetch_historical_tao_prices gives a non-empty feed result as the mapping;
\* on an empty result or a feed failure it gives {today: current price}, and
\* the empty mapping only when the current price is not usable.
C10_PriceSourceNeverRaises ==
    /\ ~srcRaised
    /\ srcOp = "current" => srcPrice = ExpectedCurrent(srcCur)
    /\ srcOp = "historical" =>
          IF srcHist.kind = "rows" /\ srcHist.rows # <<>>
            THEN srcPrices = FrameMapping(srcHist.rows)
            ELSE IF ExpectedCurrent(srcCur) # 0
                   THEN srcPrices = (srcToday :> ExpectedCurrent(srcCur))
                   ELSE Keys(srcPrices) = {} /\ srcCur.kind = "rows" /\ srcCur.close = 0

C10_Witness ==
    /\ srcOp = "historical"
    /\ srcHist.kind = "fail"
    /\ srcCur.kind = "fail"
    /\ ~srcRaised
    /\ srcPrices = (srcToday :> 500)

----------------------------------------------------------------------------
\* Properties of nearest-date resolution

\* price p is what the nearest-date rule gives for day d against dict
NearestDateRule(p, dict, d) ==
    IF d \in Keys(dict) THEN p = dict[d]
    ELSE IF \E k \in Keys(dict) : k >= d
           THEN \E k \in Keys(dict) :
                   /\ k >= d
                   /\ \A j \in Keys(dict) : j >= d => k <= j
                   /\ p = dict[k]
    ELSE IF Keys(dict) # {}
           THEN \E k \in Keys(dict) : (\A j \in Keys(dict) : j <= k) /\ p = dict[k]
    ELSE p = None

\* the prices the enrichments that have run resolved
ResolvedPrices ==
    (IF "fetch" \in lk_done THEN {fetch_price} ELSE {})
    \cup (IF "main" \in lk_done THEN {main_price} ELSE {})

\* C11: resolving a target date d against a price map gives the price at d
\* when d is a key; otherwise the price of the smallest key >= d; otherwise,
\* every key being < d, the price of the maximum key; there is no price
\* exactly when the map is empty.  With the map {day 1: 100, day 3: 110} both
\* day 2 and day 4 resolve to 110.
C11_NearestDateResolution ==
    \A p \in ResolvedPrices :
        /\ NearestDateRule(p, lk_prices, (lk_stamp \div TicksPerDay) + 1)
        /\ p = None <=> Keys(lk_prices) = {}
        /\ (lk_prices = (1 :> 100) @@ (3 :> 110) /\ (lk_stamp \div TicksPerDay) + 1 \in {2, 4}) => p = 110

C11_Witness ==
    /\ lk_done = {"fetch", "main"}
    /\ lk_prices = (1 :> 100) @@ (3 :> 110)
    /\ (lk_stamp \div TicksPerDay) + 1 = 2
    /\ fetch_price = 110
    /\ main_price = 110

----------------------------------------------------------------------------
\* Properties of process_data

UsdKeys == {"tao_price_usd", "total_market_cap_usd", "staked_market_cap_usd", "circulating_market_cap_usd"}

\* the observations of a frame that come from entry r
RowsOf(frame, r) ==
    {i \in DOMAIN frame :
        /\ frame[i].timestamp = r.timestamp
        /\ frame[i].issued_tao.num = r.issued
        /\ frame[i].staked_tao.num = r.staked}

\* the positions of entry r in raw_data
EntriesOf(r) == {i \in DOMAIN raw_data : raw_data[i] = r}

\* the enriched variant has returned a frame
Returned == "enriched" \in proc_done /\ df_error = "none"

\* a price can be resolved: USD is asked for and the price mapping in use
\* has a price
PriceResolved == include_usd /\ used_prices.given /\ Keys(used_prices.map) # {}

\* C12: process_data emits exactly one observation per input record and
\* drops no record for lack of a price; an observation carries all four USD
\* fields or none, and carries them exactly when a price was resolved for the
\* date of its record.
C12_OneObservationPerRecord ==
    "enriched" \in proc_done =>
        /\ raw_data # <<>> => df_error = "none"
        /\ Returned =>
              /\ Len(df) = Len(raw_data)
              /\ \A r \in RawRecords : Cardinality(RowsOf(df, r)) = Cardinality(EntriesOf(r))
              /\ \A i \in DOMAIN df :
                    /\ Keys(df[i].usd) \in {{}, UsdKeys}
                    /\ Keys(df[i].usd) = UsdKeys <=> PriceResolved
                    /\ PriceResolved =>
                          NearestDateRule(df[i].usd["tao_price_usd"].num, used_prices.map,
                                          (df[i].timestamp \div TicksPerDay) + 1)

C12_Witness ==
    /\ Returned
    /\ Len(raw_data) = 2
    /\ Len(df) = 2
    /\ include_usd
    /\ price_calls = 1
    /\ Keys(used_prices.map) = {}
    /\ \A i \in DOMAIN df : Keys(df[i].usd) = {}

\* the timestamps of a frame, in row order
Timestamps(frame) == [i \in DOMAIN frame |-> frame[i].timestamp]

StrictlyAscending(seq) == \A i \in 1..(Len(seq) - 1) : seq[i] < seq[i + 1]
Ascending(seq) == \A i \in 1..(Len(seq) - 1) : seq[i] <= seq[i + 1]
Distinct(seq) == \A i, j \in DOMAIN seq : i # j => seq[i] # seq[j]

\* C13 (as claimed): the observation sequence process_data (either variant)
\* returns is sorted strictly ascending by timestamp, for every input list.
C13_StrictlyAscendingAsClaimed ==
    /\ ("enriched" \in proc_done /\ df_error = "none") => StrictlyAscending(Timestamps(df))
    /\ ("basic" \in proc_done /\ basic_error = "none") => StrictlyAscending(Timestamps(basic_df))

\* C13 (amended): for every non-empty input list, process_data (either
\* variant) returns the observations sorted ascending by timestamp, whatever
\* the order of the input; entries of equal timestamp are all kept, next to
\* each other, so the order is strict exactly when the timestamps of the
\* input are distinct.  For the empty list it returns no frame: sort_values
\* raises KeyError.
C13_AscendingByTimestamp ==
    /\ "enriched" \in proc_done =>
          IF raw_data = <<>> THEN df_error = "KeyError"
          ELSE /\ df_error = "none"
               /\ Len(df) = Len(raw_data)
               /\ Ascending(Timestamps(df))
               /\ StrictlyAscending(Timestamps(df)) <=> Distinct(Timestamps(raw_data))
    /\ "basic" \in proc_done =>
          IF raw_data = <<>> THEN basic_error = "KeyError"
          ELSE /\ basic_error = "none"
               /\ Len(basic_df) = Len(raw_data)
               /\ Ascending(Timestamps(basic_df))
               /\ StrictlyAscending(Timestamps(basic_df)) <=> Distinct(Timestamps(raw_data))

C13_Witness ==
    /\ proc_done = {"enriched", "basic"}
    /\ Len(raw_data) = 2
    /\ raw_data[1].timestamp > raw_data[2].timestamp
    /\ Timestamps(df) = <<raw_data[2].timestamp, raw_data[1].timestamp>>
    /\ Timestamps(basic_df) = Timestamps(df)

\* a fraction with a positive denominator lies within [0, 100]
WithinPercentRange(q) == 0 <= q.num /\ q.num <= 100 * q.den

\* observation o is the data point of entry r
ObservationOf(o, r) ==
    /\ o.timestamp = r.timestamp
    /\ o.issued_tao = [num |-> r.issued, den |-> 1000000000]
    /\ o.staked_tao = [num |-> r.staked, den |-> 1000000000]

\* C14 (as claimed): every observation of a record with issued > 0 has
\* staked_percentage within [0, 100] and issued = staked + circulating,
\* whatever the staked value of the record.
C14_PercentageInRangeAsClaimed ==
    Returned =>
        \A i \in DOMAIN df :
            df[i].issued_tao.num > 0 =>
                /\ WithinPercentRange(df[i].staked_percentage)
                /\ df[i].issued_tao.num = df[i].staked_tao.num + df[i].circulating_tao.num

\* C14 (amended): every observation of a record with issued > 0 has
\* circulating = issued - staked, so issued = staked + circulating, and
\* staked_percentage = 100 * staked / issued; the percentage is within
\* [0, 100] exactly when 0 <= staked <= issued: a record with staked > issued
\* is accepted as it is and gets a percentage above 100.
C14_PercentageOfIssued ==
    Returned =>
        \A i \in DOMAIN df :
            \E j \in DOMAIN raw_data :
                /\ ObservationOf(df[i], raw_data[j])
                /\ raw_data[j].issued > 0 =>
                      /\ df[i].circulating_tao = [num |-> raw_data[j].issued - raw_data[j].staked, den |-> 1000000000]
                      /\ df[i].issued_tao.num = df[i].staked_tao.num + df[i].circulating_tao.num
                      /\ df[i].staked_percentage.den > 0
                      /\ df[i].staked_percentage.num * raw_data[j].issued
                            = 100 * raw_data[j].staked * df[i].staked_percentage.den
                      /\ WithinPercentRange(df[i].staked_percentage)
                            <=> (0 <= raw_data[j].staked /\ raw_data[j].staked <= raw_data[j].issued)

C14_Witness ==
    /\ Returned
    /\ \E i \in DOMAIN df :
          /\ df[i].issued_tao.num = 2
          /\ df[i].staked_tao.num = 3
          /\ df[i].circulating_tao.num = -1
          /\ df[i].staked_percentage = [num |-> 300, den |-> 2]

\* the fraction is the number 0
IsZero(q) == q.num = 0 /\ q.den > 0

\* C15: a record with issued = 0 yields an observation with
\* staked_percentage = 0 and circulating_percentage = 0, whatever its staked
\* value, and process_data raises no division-by-zero fault.
C15_ZeroIssued ==
    "enriched" \in proc_done =>
        /\ df_error # "ZeroDivisionError"
        /\ (\E j \in DOMAIN raw_data : raw_data[j].issued = 0) =>
              /\ Returned
              /\ \E i \in DOMAIN df : df[i].issued_tao.num = 0
        /\ \A i \in DOMAIN df :
              df[i].issued_tao.num = 0 =>
                 IsZero(df[i].staked_percentage) /\ IsZero(df[i].circulating_percentage)

C15_Witness ==
    /\ Returned
    /\ \E i \in DOMAIN df :
          /\ df[i].issued_tao.num = 0
          /\ df[i].staked_tao.num = 1
          /\ IsZero(df[i].staked_percentage)
          /\ IsZero(df[i].circulating_percentage)

----------------------------------------------------------------------------
\* Further properties of fetch_all_data

\* a successful response without a data field or with an empty one
EndOfStream(resp) == resp.status = "ok" /\ resp.data \in {"absent", "empty"}

\* the response of the request just made
LastAnswer == answers[Len(answers)]

\* C16: a successful response that has no data field, or an empty one, ends
\* the stream: the fetch returns at once exactly the records accumulated from
\* the earlier pages, consumes no retry for the page, and issues no further
\* request.
C16_EmptyPageEndsStream ==
    [][/\ (Attempt /\ EndOfStream(LastAnswer')) =>
             /\ pc' = "done"
             /\ all_data' = all_data
             /\ retry_count' = retry_count
             /\ waits' = waits
       /\ (pc = "done" /\ answers # <<>> /\ EndOfStream(LastAnswer)) =>
             UNCHANGED <<requested, answers, all_data, pc>>]_vars

C16_Witness ==
    /\ pc = "done"
    /\ page = 2
    /\ Len(answers) = 2
    /\ answers[1].status = "429"
    /\ EndOfStream(answers[2])
    /\ answers[2].data = "empty"
    /\ retry_count = 1
    /\ all_data = ConcatPages(1)
    /\ requested = {1, 2}

----------------------------------------------------------------------------
\* The two variants of process_data

\* the columns the two variants share
SharedColumns(o) ==
    [timestamp |-> o.timestamp,
     block_number |-> o.block_number,
     issued_tao |-> o.issued_tao,
     staked_tao |-> o.staked_tao,
     staked_percentage |-> o.staked_percentage,
     accounts |-> o.accounts,
     balance_holders |-> o.balance_holders]

\* C17: called with include_usd = False, process_data of the enriched variant
\* yields on the shared columns the same rows in the same order as
\* process_data of the basic variant, attaches no USD field and makes no call
\* to the price cache or the price source.
C17_VariantsAgree ==
    (proc_done = {"basic", "enriched"} /\ ~include_usd) =>
        /\ df_error = basic_error
        /\ [i \in DOMAIN df |-> SharedColumns(df[i])] = basic_df
        /\ \A i \in DOMAIN df : Keys(df[i].usd) = {}
        /\ price_calls = 0
        /\ call_time = -1 /\ ~fetched /\ ~saved /\ files = {}
        /\ srcOp = "none"

C17_Witness ==
    /\ proc_done = {"basic", "enriched"}
    /\ ~include_usd
    /\ price_arg.given /\ Keys(price_arg.map) # {}
    /\ Len(raw_data) = 2
    /\ raw_data[1].timestamp > raw_data[2].timestamp
    /\ Len(df) = 2
    /\ basic_df = <<SharedColumns(df[1]), SharedColumns(df[2])>>
    /\ price_calls = 0

----------------------------------------------------------------------------
\* The accumulated list and the retry budget of fetch_all_data

\* C18: the list fetch_all_data holds, and returns, is always the in-order
\* concatenation of the records of pages 1..k for some k >= 0: each page at
\* most once, in increasing page number, no page below k missing.
C18_ResultIsPagePrefix ==
    \E k \in 0..MaxPages : all_data = ConcatPages(k)

\* C19: at most MAX_RETRIES (3) requests are issued for any single page.
\* Before each request the attempt counter equals the number of requests
\* already made for the page, 429 responses and transport errors alike; it
\* is 0 at the first request of every page, whatever failed on the pages
\* before, and all the requests for a page are made during one visit.
C19_RetryBudgetPerPage ==
    [][/\ Attempt =>
             /\ retry_count = Len(answers)
             /\ Len(answers') <= 3
             /\ (page <= MaxPages /\ page \in requested) => answers # <<>>
       /\ PageStart => retry_count' = 0 /\ answers' = <<>>]_vars

C19_Witness ==
    /\ page = 2
    /\ 1 \in exhausted
    /\ requested = {1, 2}
    /\ Len(answers) = 3
    /\ retry_count = 3
    /\ {"429", "err"} \subseteq {answers[i].status : i \in 1..Len(answers)}

----------------------------------------------------------------------------
\* The two implementations of nearest-date resolution

\* C20: for every price map (with non-None prices) and every target date the
\* lookup written inline in process_data resolves the same price, or the same
\* absence of a price, as get_price_for_date: a record priced at fetch time
\* and the same record priced later by main from a loaded file get the same
\* price.
C20_LookupsAgree ==
    lk_done = {"fetch", "main"} => fetch_price = main_price

C20_Witness ==
    /\ lk_done = {"fetch", "main"}
    /\ Keys(lk_prices) # {}
    /\ \A k \in Keys(lk_prices) : k < (lk_stamp \div TicksPerDay) + 1
    /\ fetch_price # None
    /\ fetch_price = main_price

----------------------------------------------------------------------------
\* The growth of the price cache

\* C21: across the calls of get_or_fetch_price_data of a run the price cache
\* only grows: every date of the most recent snapshot before a call is a date
\* of the most recent snapshot after it and of the mapping the call returns;
\* no step removes a snapshot or a date of the most recent one.
C21_CacheOnlyGrows ==
    [][files # {} =>
          /\ files \subseteq files'
          /\ Keys(Contents(MostRecent)) \subseteq Keys(Contents(MostRecent'))
          /\ GetOrFetch => Keys(Contents(MostRecent)) \subseteq Keys(ret')]_vars

C21_Witness ==
    /\ call_time = clock
    /\ fetched /\ saved
    /\ Cardinality(files) >= 2
    /\ Keys(existing_prices) # {}
    /\ Keys(existing_prices) # Keys(ret)
    /\ Keys(existing_prices) \subseteq Keys(ret)
    /\ Contents(MostRecent) = ret
    /\ \E f \in files : f # MostRecent /\ Contents(f) = existing_prices

----------------------------------------------------------------------------
\* Responses without pagination metadata

\* a successful response with records and no pagination.total_pages
NoPagination(resp) == resp.status = "ok" /\ resp.data = "records" /\ resp.total = 0

\* C22: a successful non-empty response without pagination metadata (or
\* without total_pages in it) counts as the last page: its records are
\* appended and the fetch returns at once, without a request for the next
\* page, even when the upstream has further pages.
C22_NoPaginationIsLastPage ==
    [][/\ (Attempt /\ NoPagination(LastAnswer')) =>
             /\ pc' = "done"
             /\ page' = page
             /\ all_data' = all_data \o PageData(page)
       /\ (pc = "done" /\ answers # <<>> /\ NoPagination(LastAnswer)) =>
             UNCHANGED <<requested, answers, all_data, page, pc>>]_vars

C22_Witness ==
    /\ pc = "done"
    /\ upTotal = MaxPages
    /\ page = 1
    /\ answers # <<>>
    /\ NoPagination(LastAnswer)
    /\ all_data = ConcatPages(1)
    /\ requested = {1}

====
